---- MODULE Spec2Model ----
(***************************************************************************)
(* Model of the deployment orchestration controller, deployOpts.Run and    *)
(* its helpers, of internal/pkg/cli/deploy.go.                             *)
(*                                                                         *)
(* One run of Run() on one deployOpts.  The collaborators (store,          *)
(* workspace, selector, prompter, workload adder, lifecycle commands) are   *)
(* interfaces: every call of one returns a value chosen nondeterministically*)
(* from the results its signature allows.  `log` records every collaborator *)
(* call in the order it is made, with the index of the workload iteration   *)
(* it belongs to (0 for the phases before the loop) and what it returned.   *)
(***************************************************************************)
EXTENDS Naturals, Sequences, FiniteSets

VARIABLES
    pc,              \* position in Run()
    idx,             \* 1-based position of the loop over workloadNames (0 before the loop)
    workloadNames,   \* deployVars.workloadNames, a slice
    envName,         \* deployWkldVars.envName
    yesInitWkld,     \* deployVars.yesInitWkld, *bool
    yesInitEnv,      \* deployVars.yesInitEnv, *bool
    deployEnv,       \* deployVars.deployEnv, *bool
    wlType,          \* deployOpts.wlType
    envExistsInApp,  \* deployOpts.envExistsInApp
    envExistsInWs,   \* deployOpts.envExistsInWs
    wsEnvironments,  \* deployOpts.wsEnvironments, a slice
    factory,         \* which function deployOpts.setupDeployCmd holds
    deployCmd,       \* the actionCommand built in the current iteration
    err,             \* the error returned by Run(), NoErr while running and on success
    log,             \* history: the collaborator calls made so far
    added,           \* history: workloads added by AddWorkloadToApp in this run, with their type
    storeType,       \* history: the Type of the record the last Store.GetWorkload returned
    flags0,          \* history: the three tri-state flags as they were when Run() started
    extraOptions,    \* history: the extra options last passed to Selector.Environment
    storeEnvs,       \* history: the names Store.ListEnvironments last returned to askEnv
    args,            \* the command line BuildDeployCmd was run with, "none" without one
    other            \* a second execution of Run() on the same deployOpts: its locals while it is not running

vars == <<pc, idx, workloadNames, envName, yesInitWkld, yesInitEnv, deployEnv,
          wlType, envExistsInApp, envExistsInWs, wsEnvironments, factory,
          deployCmd, err, log, added, storeType, flags0, extraOptions,
          storeEnvs, args, other>>

----------------------------------------------------------------------------
(* Bounds of the model *)

\* longest workloadNames given on the command line
MaxBatch == 2

----------------------------------------------------------------------------
(* Values *)

appName == "app"

WkldNames == {"fe", "mailer"}
EnvNames == {"test"}

svcWkldType == "svc"
jobWkldType == "job"

\* manifestinfo.JobTypes(), manifestinfo.ServiceTypes(), manifestinfo.WorkloadTypes()
JobTypes == {"Scheduled Job"}
ServiceTypes == {"Load Balanced Web Service", "Backend Service"}
WorkloadTypes == ServiceTypes \cup JobTypes

\* a type string outside the closed set
UnknownType == "Bogus"

\* the cause carried by a failing collaborator
SomeError == "some error"

\* a Go slice: nil, or a (possibly empty) sequence
NilSlice == [nil |-> TRUE, s |-> <<>>]
Slice(s) == [nil |-> FALSE, s |-> s]

\* a Go *bool
NilBool == "nil"
PtrBools == {"nil", "true", "false"}
\* aws.Bool
Bool(b) == IF b THEN "true" ELSE "false"
\* mutant: the pointer is tested, not the value it points to
BoolValue_NotNil(p) == p # "nil"

\* aws.BoolValue: nil reads as false
BoolValue(p) == p = "true"

\* a Go error is modelled by the pieces of its message, nil by the empty message
NoErr == <<>>
\* fmt.Errorf("<tag>: %w", cause)
Wrap(tag, cause) == tag \o <<": ">> \o cause
Cause == <<SomeError>>

\* slices.Contains
Contains(s, x) == \E i \in 1..Len(s) : s[i] = x

\* an entry of log: collaborator call op, made in iteration i, returned r
Call(op, i, r) == [op |-> op, i |-> i, r |-> r]
\* "ok" or "error"
Res(ok) == IF ok THEN "ok" ELSE "error"

RECURSIVE SeqsUpTo(_, _)
SeqsUpTo(S, n) ==
    IF n = 0 THEN {<<>>}
    ELSE LET shorter == SeqsUpTo(S, n - 1)
         IN  shorter \cup {Append(s, x) : s \in {t \in shorter : Len(t) = n - 1}, x \in S}

----------------------------------------------------------------------------
(* Construction: BuildDeployCmd's RunE, or a test's literal deployOpts *)

\* mutant: the existence check moved behind the environment-init decision
RunPhases_InitBeforeCheck ==
    <<"askName", "askEnv", "maybeInitEnv", "checkEnvExists", "maybeDeployEnv">>

\* mutant: the existence check is made again after the init decision
RunPhases_Recheck ==
    <<"askName", "askEnv", "checkEnvExists", "maybeInitEnv", "checkEnvExists", "maybeDeployEnv">>

\* the phases of Run() before the loop, in the order of its statements
RunPhases == <<"askName", "askEnv", "checkEnvExists", "maybeInitEnv", "maybeDeployEnv">>

\* the locals of an execution of Run() that has not made its first step; switches
\* counts how often the processor went from one execution to the other
NotStarted ==
    [pc |-> RunPhases[1], idx |-> 0, err |-> NoErr, deployCmd |-> "none",
     log |-> <<>>, storeType |-> "", switches |-> 0]

Init ==
    /\ pc = RunPhases[1]
    /\ idx = 0
    /\ workloadNames \in {NilSlice} \cup {Slice(s) : s \in SeqsUpTo(WkldNames, MaxBatch)}
    /\ envName \in {"", "test"}
    /\ yesInitWkld \in PtrBools
    /\ yesInitEnv \in PtrBools
    /\ deployEnv \in PtrBools
    /\ wlType = ""
    /\ envExistsInApp = FALSE
    /\ envExistsInWs = FALSE
    /\ wsEnvironments = NilSlice
    /\ factory \in {"production", "stub"}
    /\ deployCmd = "none"
    /\ err = NoErr
    /\ log = <<>>
    /\ added = {}
    /\ storeType = ""
    /\ flags0 = [initWkld |-> yesInitWkld, initEnv |-> yesInitEnv, deployEnv |-> deployEnv]
    /\ extraOptions = <<>>
    /\ storeEnvs = {}
    /\ args = "none"
    /\ other = NotStarted

----------------------------------------------------------------------------
(* Run(): the control flow between its statements *)

\* mutant: a failed run starts over
Return_StartOver(e) ==
    /\ pc' = IF e = NoErr THEN "done" ELSE "askName"
    /\ err' = NoErr
    /\ UNCHANGED idx

\* Run() returns e
Return(e) ==
    /\ pc' = "done"
    /\ err' = e
    /\ UNCHANGED idx

\* Run() goes on with statement p
Goto(p) ==
    /\ pc' = p
    /\ UNCHANGED <<idx, err>>

\* mutant: the loop passes over a workload
Iterate_Skipping(i) ==
    IF i + 1 <= Len(workloadNames.s)
    THEN /\ pc' = "maybeInitWkld"
         /\ idx' = i + 1
         /\ UNCHANGED err
    ELSE Return(NoErr)

\* the for statement of Run(): the iteration of workload i starts, or Run() returns nil
Iterate(i) ==
    IF i <= Len(workloadNames.s)
    THEN /\ pc' = "maybeInitWkld"
         /\ idx' = i
         /\ UNCHANGED err
    ELSE Return(NoErr)

\* phase p returned nil: Run() goes on with the statement after it
Proceed(p) ==
    LET k == CHOOSE j \in 1..Len(RunPhases) : RunPhases[j] = p
    IN  IF k < Len(RunPhases) THEN Goto(RunPhases[k + 1]) ELSE Iterate(1)

----------------------------------------------------------------------------
(* askName *)

AskName ==
    /\ pc = "askName"
    /\ IF ~workloadNames.nil \/ Len(workloadNames.s) # 0
       THEN /\ Proceed("askName")
            /\ UNCHANGED <<workloadNames, log>>
       ELSE \E ok \in BOOLEAN, name \in WkldNames :
              /\ log' = Append(log, Call("sel.Workload", 0, Res(ok)))
              /\ IF ~ok
                 THEN /\ Return(Wrap(<<"select service or job">>, Cause))
                      /\ UNCHANGED workloadNames
                 ELSE /\ workloadNames' = Slice(<<name>>)
                      /\ Proceed("askName")
    /\ UNCHANGED <<envName, yesInitWkld, yesInitEnv, deployEnv, wlType,
                   envExistsInApp, envExistsInWs, wsEnvironments, factory,
                   deployCmd, added, storeType, flags0, args, other, extraOptions, storeEnvs>>

----------------------------------------------------------------------------
(* listWsEnvironments, askEnv, checkEnvExists *)

\* what Workspace.ListEnvironments may return when it succeeds
WsListResults == {NilSlice, Slice(<<>>), Slice(<<"test">>)}
\* the names Store.ListEnvironments may return when it succeeds
StoreEnvResults == {{}, {"test"}}

\* mutant: a nil or empty answer of the workspace is cached as it came
EmptyNotNil_AsIs(res) == res

\* "if len(envs) == 0 { envs = []string{} }": an answer without names is cached
\* as an empty slice that is not nil
EmptyNotNil(res) == IF Len(res.s) = 0 THEN Slice(<<>>) ELSE res

\* listWsEnvironments with the workspace answering (ok, res): the list returned,
\* the cache afterwards and the calls made
listWsEnvironments(ok, res) ==
    IF wsEnvironments.nil
    THEN IF ~ok
         THEN [failed |-> TRUE, envs |-> <<>>, cache |-> wsEnvironments,
               calls |-> <<Call("ws.ListEnvironments", 0, "error")>>]
         ELSE LET envs == EmptyNotNil(res)
              IN  [failed |-> FALSE, envs |-> envs.s, cache |-> envs,
                   calls |-> <<Call("ws.ListEnvironments", 0, "ok")>>]
    ELSE [failed |-> FALSE, envs |-> wsEnvironments.s, cache |-> wsEnvironments,
          calls |-> <<>>]

\* mutant: every name of the workspace is offered as uninitialized
ExtraOptions_All(localEnvs, initializedEnvs) ==
    [i \in 1..Len(localEnvs) |-> [Value |-> localEnvs[i], Hint |-> "uninitialized"]]

\* the extra options askEnv passes to the selector
ExtraOptions(localEnvs, initializedEnvs) ==
    LET uninitialized == SelectSeq(localEnvs, LAMBDA e : e \notin initializedEnvs)
    IN  [i \in 1..Len(uninitialized) |-> [Value |-> uninitialized[i], Hint |-> "uninitialized"]]

\* mutant: both listing failures carry the tag of the store listing
AskEnvTag_Shared(op) ==
    CASE op = "ws.ListEnvironments" -> <<"get initialized environments">>
      [] op = "store.ListEnvironments" -> <<"get initialized environments">>
      [] op = "sel.Environment" -> <<"get environment name">>

\* the tag askEnv puts on the failure of collaborator call op
AskEnvTag(op) ==
    CASE op = "ws.ListEnvironments" -> <<"get workspace environments">>
      [] op = "store.ListEnvironments" -> <<"get initialized environments">>
      [] op = "sel.Environment" -> <<"get environment name">>

\* askEnv with the workspace answering from wsResults and the store from stResults
AskEnvFrom(wsResults, stResults) ==
    /\ pc = "askEnv"
    /\ IF envName # ""
       THEN /\ Proceed("askEnv")
            /\ UNCHANGED <<envName, wsEnvironments, log, extraOptions, storeEnvs>>
       ELSE \E wsOk \in BOOLEAN, wsRes \in wsResults,
               stOk \in BOOLEAN, stRes \in stResults,
               selOk \in BOOLEAN, selName \in EnvNames :
              LET l == listWsEnvironments(wsOk, wsRes)
              IN  /\ wsEnvironments' = l.cache
                  /\ IF l.failed
                     THEN /\ log' = log \o l.calls
                          /\ Return(Wrap(AskEnvTag("ws.ListEnvironments"), Cause))
                          /\ UNCHANGED <<envName, extraOptions, storeEnvs>>
                     ELSE IF ~stOk
                     THEN /\ log' = log \o l.calls
                                        \o <<Call("store.ListEnvironments", 0, "error")>>
                          /\ Return(Wrap(AskEnvTag("store.ListEnvironments"), Cause))
                          /\ UNCHANGED <<envName, extraOptions, storeEnvs>>
                     ELSE /\ log' = log \o l.calls
                                        \o <<Call("store.ListEnvironments", 0, "ok"),
                                             Call("sel.Environment", 0, Res(selOk))>>
                          /\ extraOptions' = ExtraOptions(l.envs, stRes)
                          /\ storeEnvs' = stRes
                          /\ IF ~selOk
                             THEN \* o.envName is assigned the selector's zero value
                                  /\ envName' = ""
                                  /\ Return(Wrap(AskEnvTag("sel.Environment"), Cause))
                             ELSE /\ envName' = selName
                                  /\ Proceed("askEnv")
    /\ UNCHANGED <<workloadNames, yesInitWkld, yesInitEnv, deployEnv, wlType,
                   envExistsInApp, envExistsInWs, factory, deployCmd, added,
                   storeType, flags0, args, other>>

AskEnv == AskEnvFrom(WsListResults, StoreEnvResults)

\* the results of Store.GetEnvironment: the record, *config.ErrNoSuchEnvironment, another error
GetEnvResults == {"ok", "notfound", "error"}

\* mutant: every failure of Store.GetEnvironment is taken for not-found
Fatal_Never(get) == FALSE

\* errors.As(err, &errNotFound) fails: the failure is not the distinguished not-found
Fatal(get) == get = "error"

\* mutant: envExistsInApp is not reset when the store answers not-found
ExistsInApp_Always(get) == TRUE

\* envExistsInApp after Store.GetEnvironment answered get
ExistsInApp(get) == get = "ok"

\* mutant: the terminal check is dropped
Unresolvable_Never(inApp, inWs) == FALSE

\* the terminal check of checkEnvExists: the environment exists nowhere
Unresolvable(inApp, inWs) == ~inApp /\ ~inWs

CheckEnvExists ==
    /\ pc = "checkEnvExists"
    /\ \E get \in GetEnvResults, wsOk \in BOOLEAN, wsRes \in WsListResults :
         LET l == listWsEnvironments(wsOk, wsRes)
             inApp == ExistsInApp(get)
             inWs == Contains(l.envs, envName)
         IN  IF Fatal(get)
             THEN /\ envExistsInApp' = TRUE
                  /\ log' = Append(log, Call("store.GetEnvironment", 0, get))
                  /\ Return(Wrap(<<"get environment from config store">>, Cause))
                  /\ UNCHANGED <<envExistsInWs, wsEnvironments>>
             ELSE /\ envExistsInApp' = inApp
                  /\ log' = Append(log, Call("store.GetEnvironment", 0, get)) \o l.calls
                  /\ wsEnvironments' = l.cache
                  /\ IF l.failed
                     THEN /\ Return(Wrap(<<"list environments in workspace">>, Cause))
                          /\ UNCHANGED envExistsInWs
                     ELSE /\ envExistsInWs' = inWs
                          /\ IF Unresolvable(inApp, inWs)
                             THEN Return(<<"environment \"", envName,
                                           "\" does not exist in the workspace">>)
                             ELSE Proceed("checkEnvExists")
    /\ UNCHANGED <<workloadNames, envName, yesInitWkld, yesInitEnv, deployEnv,
                   wlType, factory, deployCmd, added, storeType, flags0, args, other, extraOptions, storeEnvs>>

----------------------------------------------------------------------------
(* The lifecycle commands of the environment: cmd.Validate, cmd.Ask, cmd.Execute *)

\* where driving a command stops: its constructor fails, one of its stages fails, or nothing does
CmdResults == {"new", "Validate", "Ask", "Execute", "ok"}

\* mutant: the init command is asked before it is validated
InitEnvStages_AskFirst == <<"initEnv.Ask", "initEnv.Validate", "initEnv.Execute">>

\* the stages of the init command in the order maybeInitEnv invokes them
InitEnvStages == <<"initEnv.Validate", "initEnv.Ask", "initEnv.Execute">>
DeployEnvStages == <<"deployEnv.Validate", "deployEnv.Ask", "deployEnv.Execute">>

\* the calls made when a command built by ctor is driven and stops at r
CmdCalls(ctor, stages, r) ==
    LET n == CASE r = "new" -> 0
               [] r = "Validate" -> 1
               [] r = "Ask" -> 2
               [] OTHER -> 3
    IN  <<Call(ctor, 0, Res(r # "new"))>>
        \o [k \in 1..n |-> Call(stages[k], 0, Res(k < n \/ r = "ok"))]

\* the results of prompter.Confirm
ConfirmResults == {"error", "true", "false"}

\* mutant: a flag forced false is asked about again
NeedsConfirm_UnlessTrue(flag) == ~BoolValue(flag)

\* a nil flag is decided by asking for confirmation
NeedsConfirm(flag) == flag = NilBool

----------------------------------------------------------------------------
(* maybeInitEnv, maybeDeployEnv *)

\* mutant: no inference after the init command has run
InferDeployEnv_None(d) == d

\* mutant: deployEnv is set after the init command has run whatever it was
InferDeployEnv_Always(d) == Bool(TRUE)

\* deployEnv after the init command has run: inferred true only when it was nil
InferDeployEnv(d) == IF d = NilBool THEN Bool(TRUE) ELSE d

\* mutant: an initialized environment is never reported as not deployed
NotDeployed_Never(d) == FALSE

\* the environment was initialized while deployEnv was forced false
NotDeployed(d) == d # NilBool /\ ~BoolValue(d)

\* mutant: maybeInitEnv marks the environment as being in the store
InAppAfterInit_Marked(inApp) == TRUE

\* maybeInitEnv has no assignment to o.envExistsInApp: it is what checkEnvExists left
InAppAfterInit(inApp) == inApp

\* mutant: the decision is taken again for an environment the store has
AlreadyInitialized_Never(inApp) == FALSE

\* "if o.envExistsInApp { return nil }"
AlreadyInitialized(inApp) == inApp

MaybeInitEnv ==
    /\ pc = "maybeInitEnv"
    /\ IF AlreadyInitialized(envExistsInApp)
       THEN /\ Proceed("maybeInitEnv")
            /\ UNCHANGED <<yesInitEnv, deployEnv, log>>
       ELSE \E confirm \in ConfirmResults, r \in CmdResults :
              LET prompted == NeedsConfirm(yesInitEnv)
                  asked == IF prompted THEN <<Call("prompt.Confirm.env", 0, confirm)>> ELSE <<>>
                  yes == IF prompted THEN confirm ELSE yesInitEnv
              IN  IF prompted /\ confirm = "error"
                  THEN /\ log' = log \o asked
                       /\ Return(Wrap(<<"confirm env init">>, Cause))
                       /\ UNCHANGED <<yesInitEnv, deployEnv>>
                  ELSE /\ yesInitEnv' = yes
                       /\ IF ~BoolValue(yes)
                          THEN /\ log' = log \o asked
                               /\ Return(<<"env ", envName, " does not exist in app ", appName>>)
                               /\ UNCHANGED deployEnv
                          ELSE /\ log' = log \o asked \o CmdCalls("newInitEnvCmd", InitEnvStages, r)
                               /\ IF r = "new"
                                  THEN /\ Return(Wrap(<<"load env init command ">>, Cause))
                                       /\ UNCHANGED deployEnv
                                  ELSE IF r # "ok"
                                  THEN /\ Return(Cause)
                                       /\ UNCHANGED deployEnv
                                  ELSE /\ deployEnv' = InferDeployEnv(deployEnv)
                                       /\ IF NotDeployed(deployEnv)
                                          THEN Return(<<"environment ", envName,
                                                        " was initialized but has not been deployed">>)
                                          ELSE Proceed("maybeInitEnv")
    /\ envExistsInApp' = InAppAfterInit(envExistsInApp)
    /\ UNCHANGED <<workloadNames, envName, yesInitWkld, wlType,
                   envExistsInWs, wsEnvironments, factory, deployCmd, added,
                   storeType, flags0, args, other, extraOptions, storeEnvs>>

\* mutant: the environment is never deployed
ShouldDeployEnv_Never(inWs, d) == FALSE

\* mutant: an environment of the store is deployed without a manifest in the workspace
ShouldDeployEnv_InApp(inWs, d) == (inWs \/ envExistsInApp) /\ BoolValue(d)

\* mutant: the workspace is not consulted
ShouldDeployEnv_AnyWs(inWs, d) == BoolValue(d)

\* maybeDeployEnv runs the environment-deploy command
ShouldDeployEnv(inWs, d) == inWs /\ BoolValue(d)

MaybeDeployEnv ==
    /\ pc = "maybeDeployEnv"
    /\ IF ~ShouldDeployEnv(envExistsInWs, deployEnv)
       THEN /\ Proceed("maybeDeployEnv")
            /\ UNCHANGED log
       ELSE \E r \in CmdResults :
              /\ log' = log \o CmdCalls("newDeployEnvCmd", DeployEnvStages, r)
              /\ IF r = "new"
                 THEN Return(Wrap(<<"set up env deploy command">>, Cause))
                 ELSE IF r # "ok"
                 THEN Return(Cause)
                 ELSE Proceed("maybeDeployEnv")
    /\ UNCHANGED <<workloadNames, envName, yesInitWkld, yesInitEnv, deployEnv, wlType,
                   envExistsInApp, envExistsInWs, wsEnvironments, factory, deployCmd,
                   added, storeType, flags0, args, other, extraOptions, storeEnvs>>

----------------------------------------------------------------------------
(* maybeInitWkld *)

\* the types a manifest or a store record carries in this model
SampleTypes == {"Scheduled Job", "Load Balanced Web Service"}

\* ws.ReadWorkloadManifest fails, mf.WorkloadType fails, or the manifest declares a type
ManifestResults == {"readerr", "typeerr", UnknownType} \cup SampleTypes

\* the workload of the current iteration
Workload == workloadNames.s[idx]

\* mutant: the store's list does not show the workloads added in this run
AddedNames_Forgotten == {}

AddedNames == {a.name : a \in added}

\* mutant: the error is dropped
Stop_Nil(e, calls) == [err |-> NoErr, yes |-> yesInitWkld, calls |-> calls, add |-> {}]

\* what maybeInitWkld returns early with: error e after the calls made so far
Stop(e, calls) == [err |-> e, yes |-> yesInitWkld, calls |-> calls, add |-> {}]

\* mutant: the declared type is not validated
Recognized_Any(type) == TRUE

\* the declared type is in the closed set of workload types
Recognized(type) == type \in WorkloadTypes

\* mutant: the confirmation answer is used but not kept
Persist_Forget(flag, answer) == flag

\* yesInitWkld after the decision: the forced value, or the answer just given
Persist(flag, answer) == answer

\* mutant: a declined initialization is not an error
Declined_Never(yes) == FALSE

\* the initialization was declined, by flag or by answer
Declined(yes) == ~BoolValue(yes)

\* maybeInitWkld from "Get workload type and confirm readable manifest" on: the
\* workload is not in the store's list
initUninitialized(name, mf, confirm, addOk) ==
    LET read == IF mf = "readerr"
                THEN <<Call("ws.ReadWorkloadManifest", idx, "error")>>
                ELSE <<Call("ws.ReadWorkloadManifest", idx, "ok"),
                       Call("mf.WorkloadType", idx, IF mf = "typeerr" THEN "error" ELSE mf)>>
        prompted == NeedsConfirm(yesInitWkld)
        asked == IF prompted THEN <<Call("prompt.Confirm.wkld", idx, confirm)>> ELSE <<>>
        yes == IF prompted THEN confirm ELSE yesInitWkld
        add == <<Call("AddWorkloadToApp", idx, Res(addOk))>>
    IN  IF mf = "readerr"
        THEN Stop(Wrap(<<"read manifest for workload ", name>>, Cause), read)
        ELSE IF mf = "typeerr"
        THEN Stop(Wrap(<<"get workload type from manifest for workload ", name>>, Cause), read)
        ELSE IF ~Recognized(mf)
        THEN Stop(<<"unrecognized workload type \"", mf, "\" in manifest for workload ", name>>,
                  read)
        ELSE IF prompted /\ confirm = "error"
        THEN Stop(Wrap(<<"confirm initialize workload">>, Cause), read \o asked)
        ELSE IF Declined(yes)
        THEN [err |-> <<"workload ", name, " is uninitialized but --", "init-wkld",
                        "=false was specified">>,
              yes |-> Persist(yesInitWkld, yes), calls |-> read \o asked, add |-> {}]
        ELSE IF ~addOk
        THEN [err |-> Wrap(<<"add workload to app">>, Cause),
              yes |-> Persist(yesInitWkld, yes), calls |-> read \o asked \o add, add |-> {}]
        ELSE [err |-> NoErr, yes |-> Persist(yesInitWkld, yes),
              calls |-> read \o asked \o add,
              add |-> {[name |-> name, type |-> mf]}]

\* mutant: the init decision is not taken at all
maybeInitWkld_Nothing(name, listOk, inList, mf, confirm, addOk) == Stop(NoErr, <<>>)

\* mutant: no early return for a workload that is in the store's list
maybeInitWkld_NoEarlyReturn(name, listOk, inList, mf, confirm, addOk) ==
    LET list == <<Call("store.ListWorkloads", idx,
                       IF ~listOk THEN "error" ELSE IF inList THEN "in" ELSE "out")>>
    IN  IF ~listOk
        THEN Stop(Wrap(<<"retrieve workloads">>, Cause), list)
        ELSE LET r == initUninitialized(name, mf, confirm, addOk)
             IN  [r EXCEPT !.calls = list \o @]

\* maybeInitWkld(name) with Store.ListWorkloads answering (listOk, inList: name is
\* in the list) and the other collaborators answering mf, confirm, addOk
maybeInitWkld(name, listOk, inList, mf, confirm, addOk) ==
    LET list == <<Call("store.ListWorkloads", idx,
                       IF ~listOk THEN "error" ELSE IF inList THEN "in" ELSE "out")>>
    IN  IF ~listOk
        THEN Stop(Wrap(<<"retrieve workloads">>, Cause), list)
        ELSE IF inList
        THEN Stop(NoErr, list)
        ELSE LET r == initUninitialized(name, mf, confirm, addOk)
             IN  [r EXCEPT !.calls = list \o @]

MaybeInitWkld ==
    /\ pc = "maybeInitWkld"
    /\ \E listOk \in BOOLEAN, listed \in BOOLEAN, mf \in ManifestResults,
          confirm \in ConfirmResults, addOk \in BOOLEAN :
         \* a workload added earlier in this run is in the store's list
         LET inList == listed \/ Workload \in AddedNames
             r == maybeInitWkld(Workload, listOk, inList, mf, confirm, addOk)
         IN  /\ log' = log \o r.calls
             /\ yesInitWkld' = r.yes
             /\ added' = added \cup r.add
             /\ IF r.err # NoErr THEN Return(r.err) ELSE Goto("loadWkldCmd")
    /\ UNCHANGED <<workloadNames, envName, yesInitEnv, deployEnv, wlType,
                   envExistsInApp, envExistsInWs, wsEnvironments, factory, deployCmd,
                   storeType, flags0, args, other, extraOptions, storeEnvs>>

----------------------------------------------------------------------------
(* setupDeployCmd, loadWkldCmd *)

\* mutant: Validate is invoked before Ask
DeployStages_ValidateFirst == <<"Validate", "Ask", "Execute", "RecommendActions">>

\* the order in which Run() invokes the stages of deployCmd
DeployStages == <<"Ask", "Validate", "Execute", "RecommendActions">>

\* the function held by deployOpts.setupDeployCmd: the one newDeployOpts installs
\* ("production") or one that returns a prepared command for every type ("stub")
setupDeployCmd(f, workloadName, workloadType) ==
    IF f = "stub"
    THEN [err |-> NoErr, cmd |-> "actionCommand"]
    ELSE IF workloadType \in JobTypes
    THEN [err |-> NoErr, cmd |-> "deployJobOpts"]
    ELSE IF workloadType \in JobTypes
    THEN [err |-> NoErr, cmd |-> "deploySvcOpts"]
    ELSE [err |-> <<"unrecognized workload type ", workloadType>>, cmd |-> "none"]

\* mutant: every workload is labelled a job
Label_Job(type) == jobWkldType

\* mutant: the test of the job-type set is inverted
Label_Inverted(type) == IF type \notin JobTypes THEN jobWkldType ELSE svcWkldType

\* the label loadWkldCmd records for a store type
Label(type) == IF type \in JobTypes THEN jobWkldType ELSE svcWkldType

\* the type of the record Store.GetWorkload returns for name: the one it was
\* added with in this run, any type otherwise
StoredTypes(name) ==
    IF name \in AddedNames THEN {a.type : a \in {b \in added : b.name = name}}
    ELSE SampleTypes

LoadWkldCmd ==
    /\ pc = "loadWkldCmd"
    /\ \E getOk \in BOOLEAN, type \in StoredTypes(Workload) :
         IF ~getOk
         THEN /\ log' = Append(log, Call("store.GetWorkload", idx, "error"))
              /\ Return(Wrap(<<"retrieve ", appName, " from application ", Workload>>, Cause))
              /\ UNCHANGED <<wlType, deployCmd, storeType>>
         ELSE LET c == setupDeployCmd(factory, Workload, type)
              IN  /\ log' = log \o <<Call("store.GetWorkload", idx, "ok"),
                                     Call("setupDeployCmd", idx, Res(c.err = NoErr))>>
                  /\ storeType' = type
                  /\ IF c.err # NoErr
                     THEN /\ Return(c.err)
                          /\ UNCHANGED <<wlType, deployCmd>>
                     ELSE /\ wlType' = Label(type)
                          /\ deployCmd' = c.cmd
                          /\ Goto(DeployStages[1])
    /\ UNCHANGED <<workloadNames, envName, yesInitWkld, yesInitEnv, deployEnv,
                   envExistsInApp, envExistsInWs, wsEnvironments, factory, added,
                   flags0, args, other, extraOptions, storeEnvs>>

----------------------------------------------------------------------------
(* The stages of the workload deploy command, as the loop of Run() drives them *)

StageOp(stage) ==
    CASE stage = "Ask" -> "deploy.Ask"
      [] stage = "Validate" -> "deploy.Validate"
      [] stage = "Execute" -> "deploy.Execute"
      [] stage = "RecommendActions" -> "deploy.RecommendActions"

\* mutant: the failure of RecommendActions is tagged like the other three
StageError_TagAll(stage, label, cause) ==
    CASE stage = "Ask" -> Wrap(<<"ask ", label, " deploy">>, cause)
      [] stage = "Validate" -> Wrap(<<"validate ", label, " deploy">>, cause)
      [] stage = "Execute" -> Wrap(<<"execute ", label, " deploy">>, cause)
      [] stage = "RecommendActions" -> Wrap(<<"recommend actions ", label, " deploy">>, cause)

\* the error Run() returns when a stage of deployCmd fails with cause
StageError(stage, label, cause) ==
    CASE stage = "Ask" -> Wrap(<<"ask ", label, " deploy">>, cause)
      [] stage = "Validate" -> Wrap(<<"validate ", label, " deploy">>, cause)
      [] stage = "Execute" -> Wrap(<<"execute ", label, " deploy">>, cause)
      [] stage = "RecommendActions" -> cause

\* mutant: a failing stage does not end Run(), the loop goes on with the next workload
DeployStage_Continue(k) ==
    /\ pc = DeployStages[k]
    /\ \E ok \in BOOLEAN :
         /\ log' = Append(log, Call(StageOp(DeployStages[k]), idx, Res(ok)))
         /\ IF ok /\ k < Len(DeployStages)
            THEN Goto(DeployStages[k + 1])
            ELSE Iterate(idx + 1)
    /\ UNCHANGED <<workloadNames, envName, yesInitWkld, yesInitEnv, deployEnv, wlType,
                   envExistsInApp, envExistsInWs, wsEnvironments, factory, deployCmd,
                   added, storeType, flags0, args, other, extraOptions, storeEnvs>>

\* Run() invokes stage number k of DeployStages on deployCmd
DeployStage(k) ==
    /\ pc = DeployStages[k]
    /\ \E ok \in BOOLEAN :
         /\ log' = Append(log, Call(StageOp(DeployStages[k]), idx, Res(ok)))
         /\ IF ~ok
            THEN Return(StageError(DeployStages[k], wlType, Cause))
            ELSE IF k < Len(DeployStages)
            THEN Goto(DeployStages[k + 1])
            ELSE Iterate(idx + 1)
    /\ UNCHANGED <<workloadNames, envName, yesInitWkld, yesInitEnv, deployEnv, wlType,
                   envExistsInApp, envExistsInWs, wsEnvironments, factory, deployCmd,
                   added, storeType, flags0, args, other, extraOptions, storeEnvs>>

DeployFirst == DeployStage(1)
DeploySecond == DeployStage(2)
DeployThird == DeployStage(3)
DeployFourth == DeployStage(4)

----------------------------------------------------------------------------
Next ==
    \/ AskName
    \/ AskEnv
    \/ CheckEnvExists
    \/ MaybeInitEnv
    \/ MaybeDeployEnv
    \/ MaybeInitWkld
    \/ LoadWkldCmd
    \/ DeployFirst
    \/ DeploySecond
    \/ DeployThird
    \/ DeployFourth

Spec == Init /\ [][Next]_vars

----------------------------------------------------------------------------
(* Run() when the workspace and the store answer askEnv with longer lists *)

\* longest list of environments the workspace answers with
MaxEnvs == 2

EnvPool == {"test", "prod"}

WideWsListResults == {NilSlice} \cup {Slice(s) : s \in SeqsUpTo(EnvPool, MaxEnvs)}
WideStoreEnvResults == SUBSET EnvPool

AskEnvWide == AskEnvFrom(WideWsListResults, WideStoreEnvResults)

\* the requests without an environment name, built with the stub factory
InitEnvs ==
    /\ Init
    /\ envName = ""
    /\ workloadNames \in {NilSlice, Slice(<<"fe">>)}
    /\ factory = "stub"

NextEnvs ==
    \/ AskName
    \/ AskEnvWide
    \/ CheckEnvExists
    \/ MaybeInitEnv
    \/ MaybeDeployEnv
    \/ MaybeInitWkld
    \/ LoadWkldCmd
    \/ DeployFirst
    \/ DeploySecond
    \/ DeployThird
    \/ DeployFourth

SpecEnvs == InitEnvs /\ [][NextEnvs]_vars

----------------------------------------------------------------------------
(* Run() when every collaborator call returns: a step that can be taken is taken *)

\* the requests whose environment is still to be selected, built with the stub factory
InitLive ==
    /\ Init
    /\ envName = ""
    /\ factory = "stub"

SpecLive == InitLive /\ [][Next]_vars /\ WF_vars(Next)

----------------------------------------------------------------------------
(* Two executions of Run() on one deployOpts.  Run() has a pointer receiver: *)
(* the fields of deployOpts are the same memory for both executions, while   *)
(* each has its own position, loop variable, deployCmd and returned error.   *)
(* One execution runs at a time; the processor goes from one to the other    *)
(* between two statements of Run().                                          *)

\* how often the processor goes from one execution to the other
MaxSwitches == 2

\* the execution that is running: 0 is the one that made the first step
Running == other.switches % 2

\* the execution that is running is suspended and the other one goes on
Switch ==
    /\ other.switches < MaxSwitches
    /\ other.pc # "done"
    /\ pc' = other.pc
    /\ idx' = other.idx
    /\ err' = other.err
    /\ deployCmd' = other.deployCmd
    /\ log' = other.log
    /\ storeType' = other.storeType
    /\ other' = [pc |-> pc, idx |-> idx, err |-> err, deployCmd |-> deployCmd,
                 log |-> log, storeType |-> storeType,
                 switches |-> other.switches + 1]
    /\ UNCHANGED <<workloadNames, envName, yesInitWkld, yesInitEnv, deployEnv, wlType,
                   envExistsInApp, envExistsInWs, wsEnvironments, factory, added,
                   flags0, extraOptions, storeEnvs, args>>

\* a request for two workloads in environment "test" with no flag forced
InitTwoRuns ==
    /\ Init
    /\ workloadNames = Slice(<<"fe", "mailer">>)
    /\ envName = "test"
    /\ yesInitWkld = NilBool
    /\ yesInitEnv = NilBool
    /\ deployEnv = NilBool

NextTwoRuns ==
    \/ AskName
    \/ AskEnv
    \/ CheckEnvExists
    \/ MaybeInitEnv
    \/ MaybeDeployEnv
    \/ MaybeInitWkld
    \/ LoadWkldCmd
    \/ DeployFirst
    \/ DeploySecond
    \/ DeployThird
    \/ DeployFourth
    \/ Switch

SpecTwoRuns == InitTwoRuns /\ [][NextTwoRuns]_vars

----------------------------------------------------------------------------
(* BuildDeployCmd: the cobra command whose RunE builds the deployOpts and runs it *)

\* a boolean flag: whether it was passed (cmd.Flags().Changed) and the value of the
\* variable bound to it, false by default
BoolFlags ==
    {[changed |-> FALSE, value |-> FALSE],
     [changed |-> TRUE, value |-> FALSE],
     [changed |-> TRUE, value |-> TRUE]}

\* the --name flag, "" by default
NameFlags ==
    {[changed |-> FALSE, value |-> ""]}
        \cup {[changed |-> TRUE, value |-> n] : n \in {"", "fe", "mailer"}}

CommandLines ==
    [initWkld : BoolFlags, initEnv : BoolFlags, deployEnv : BoolFlags, name : NameFlags]

\* mutant: the variable bound to the flag is copied whether or not the flag was passed
FlagPtr_Value(f) == Bool(f.value)

\* the tri-state RunE derives from a boolean flag
FlagPtr(f) == IF f.changed THEN (IF f.value THEN Bool(TRUE) ELSE Bool(FALSE)) ELSE NilBool

\* the workloadNames RunE derives from the --name flag
NameSlice(f) == IF f.changed THEN Slice(<<f.value>>) ELSE NilSlice

\* how newDeployOpts ends: the default session fails, workspace.Use fails, or neither
NewOptsResults == {"session", "workspace", "ok"}

\* the command was invoked with some command line; --env is bound to vars.envName
InitBuild ==
    /\ pc = "RunE"
    /\ args \in CommandLines
    /\ idx = 0
    /\ workloadNames = NilSlice
    /\ envName \in {"", "test"}
    /\ yesInitWkld = NilBool
    /\ yesInitEnv = NilBool
    /\ deployEnv = NilBool
    /\ wlType = ""
    /\ envExistsInApp = FALSE
    /\ envExistsInWs = FALSE
    /\ wsEnvironments = NilSlice
    /\ factory = "production"
    /\ deployCmd = "none"
    /\ err = NoErr
    /\ log = <<>>
    /\ added = {}
    /\ storeType = ""
    /\ flags0 = [initWkld |-> NilBool, initEnv |-> NilBool, deployEnv |-> NilBool]
    /\ extraOptions = <<>>
    /\ storeEnvs = {}
    /\ other = NotStarted

\* RunE up to the call of opts.Run()
RunE ==
    /\ pc = "RunE"
    /\ \E r \in NewOptsResults :
         IF r # "ok"
         THEN /\ Return(IF r = "session" THEN <<"default session: ", SomeError>> ELSE Cause)
              /\ UNCHANGED <<workloadNames, yesInitWkld, yesInitEnv, deployEnv, flags0>>
         ELSE /\ yesInitWkld' = FlagPtr(args.initWkld)
              /\ yesInitEnv' = FlagPtr(args.initEnv)
              /\ deployEnv' = FlagPtr(args.deployEnv)
              /\ workloadNames' = NameSlice(args.name)
              /\ flags0' = [initWkld |-> yesInitWkld', initEnv |-> yesInitEnv',
                            deployEnv |-> deployEnv']
              /\ Goto(RunPhases[1])
    /\ UNCHANGED <<envName, wlType, envExistsInApp, envExistsInWs, wsEnvironments,
                   factory, deployCmd, log, added, storeType, extraOptions, storeEnvs,
                   args, other>>

NextBuild ==
    \/ RunE
    \/ AskName
    \/ AskEnv
    \/ CheckEnvExists
    \/ MaybeInitEnv
    \/ MaybeDeployEnv
    \/ MaybeInitWkld
    \/ LoadWkldCmd
    \/ DeployFirst
    \/ DeploySecond
    \/ DeployThird
    \/ DeployFourth

SpecBuild == InitBuild /\ [][NextBuild]_vars

----------------------------------------------------------------------------
(* Reading the history *)

LogIdx == 1..Len(log)
Last == log[Len(log)]
Called(op) == \E k \in LogIdx : log[k].op = op
Logged(e) == \E k \in LogIdx : log[k] = e
Count(op) == Cardinality({k \in LogIdx : log[k].op = op})
IsPrefix(s, t) == Len(s) <= Len(t) /\ \A k \in 1..Len(s) : s[k] = t[k]
OpNames(s) == [k \in 1..Len(s) |-> s[k].op]
AllOk(s) == \A k \in 1..Len(s) : s[k].r = "ok"
AllButLastOk(s) == \A k \in 1..(Len(s) - 1) : s[k].r = "ok"

Failed == pc = "done" /\ err # NoErr
Succeeded == pc = "done" /\ err = NoErr

PromptOps == {"prompt.Confirm.env", "prompt.Confirm.wkld"}
InitEnvOps == {"newInitEnvCmd", "initEnv.Validate", "initEnv.Ask", "initEnv.Execute"}
DeployEnvOps == {"newDeployEnvCmd", "deployEnv.Validate", "deployEnv.Ask", "deployEnv.Execute"}
WkldStageOps == {"deploy.Ask", "deploy.Validate", "deploy.Execute", "deploy.RecommendActions"}
WkldInitOps == {"store.ListWorkloads", "ws.ReadWorkloadManifest", "mf.WorkloadType",
                "prompt.Confirm.wkld",
                "AddWorkloadToApp"}
WkldLoadOps == {"store.GetWorkload", "setupDeployCmd"}
LoopPcs == {"maybeInitWkld", "loadWkldCmd", "Ask", "Validate", "Execute", "RecommendActions"}

\* the stage calls made on the deploy command of iteration i, in order
StagesOf(i) == SelectSeq(log, LAMBDA e : e.i = i /\ e.op \in WkldStageOps)
\* all the calls of iteration i
CallsOf(i) == SelectSeq(log, LAMBDA e : e.i = i)

----------------------------------------------------------------------------
(* C1 *)

\* the phases in the order the contract of Run() gives them
PhaseOrder == <<"askName", "askEnv", "checkEnvExists", "maybeInitEnv", "maybeDeployEnv">>
PhaseOf(p) == IF p \in LoopPcs THEN "loop" ELSE p
\* the collaborator calls that belong to a phase
PhaseOps(phase) ==
    CASE phase = "askName" -> {"sel.Workload"}
      [] phase = "askEnv" -> {"ws.ListEnvironments", "store.ListEnvironments", "sel.Environment"}
      [] phase = "checkEnvExists" -> {"store.GetEnvironment", "ws.ListEnvironments"}
      [] phase = "maybeInitEnv" -> {"prompt.Confirm.env"} \cup InitEnvOps
      [] phase = "maybeDeployEnv" -> DeployEnvOps
      [] phase = "loop" -> WkldInitOps \cup WkldLoadOps \cup WkldStageOps
      [] OTHER -> {}

\* C1: Run() goes through its phases strictly in the order askName, askEnv,
\* checkEnvExists, maybeInitEnv, maybeDeployEnv, workload loop: every step is
\* taken while no error has been returned, makes only calls of the phase it
\* is in, and leads to the next phase in that order or, when the phase
\* returns an error, to the end of Run() with that error.
C1_PhasesInOrderFailFast ==
    [][ /\ pc # "done"
        /\ err = NoErr
        /\ IsPrefix(log, log')
        /\ \A k \in (Len(log) + 1)..Len(log') : log'[k].op \in PhaseOps(PhaseOf(pc))
        /\ err' # NoErr => pc' = "done"
        /\ \A j \in 1..Len(PhaseOrder) :
             pc = PhaseOrder[j] =>
               \/ pc' = "done" /\ (err' # NoErr \/ j = Len(PhaseOrder))
               \/ err' = NoErr /\ j < Len(PhaseOrder) /\ pc' = PhaseOrder[j + 1]
               \/ err' = NoErr /\ j = Len(PhaseOrder) /\ pc' = "maybeInitWkld"
        /\ pc \in LoopPcs => pc' \in LoopPcs \cup {"done"}
      ]_vars

\* the init command's Validate failed after every earlier phase made its calls
C1_Witness ==
    /\ Failed
    /\ Called("sel.Workload") /\ Called("sel.Environment") /\ Called("store.GetEnvironment")
    /\ Last = Call("initEnv.Validate", 0, "error")
    /\ err = Cause

----------------------------------------------------------------------------
(* C2 *)

C2_Forbidden ==
    PromptOps \cup InitEnvOps \cup DeployEnvOps \cup WkldInitOps \cup WkldLoadOps
    \cup WkldStageOps

\* the store answered not-found and the fetched workspace list lacks the environment
C2_Nowhere ==
    /\ Logged(Call("store.GetEnvironment", 0, "notfound"))
    /\ ~wsEnvironments.nil
    /\ ~Contains(wsEnvironments.s, envName)

\* C2: when the resolved environment is neither registered in the store nor
\* in the workspace environment list, Run() returns 'environment "<env>" does
\* not exist in the workspace' and makes no prompt, no environment-init or
\* environment-deploy call and no call of the workload loop.
C2_UnresolvableEnvRefused ==
    C2_Nowhere =>
        /\ pc = "done"
        /\ err = <<"environment \"", envName, "\" does not exist in the workspace">>
        /\ \A k \in LogIdx : log[k].op \notin C2_Forbidden

C2_Witness ==
    /\ C2_Nowhere
    /\ pc = "done"
    /\ envName = "test"
    /\ Last = Call("ws.ListEnvironments", 0, "ok")

----------------------------------------------------------------------------
(* C3 *)

\* C3 as stated: the stages of every workload's deploy command are invoked
\* in the order Validate, Ask, Execute, RecommendActions.
C3_ValidateBeforeAsk ==
    \A i \in 1..idx :
        IsPrefix(OpNames(StagesOf(i)),
                 <<"deploy.Validate", "deploy.Ask", "deploy.Execute", "deploy.RecommendActions">>)

\* C3 amended: the stages of every workload's deploy command are invoked in
\* the order Ask, Validate, Execute, RecommendActions, each at most once and
\* each only after the one before it has returned successfully.
C3_AskBeforeValidate ==
    \A i \in 1..idx :
        /\ IsPrefix(OpNames(StagesOf(i)),
                    <<"deploy.Ask", "deploy.Validate", "deploy.Execute", "deploy.RecommendActions">>)
        /\ AllButLastOk(StagesOf(i))

C3_Witness ==
    /\ idx = 2
    /\ Len(StagesOf(1)) = 4
    /\ Len(StagesOf(2)) = 2
    /\ pc = "Execute"

----------------------------------------------------------------------------
(* C4 *)

\* the workloads on whose deploy command all four stages were invoked
C4_AllFourInvoked == {i \in 1..Len(workloadNames.s) : Len(StagesOf(i)) = 4}
\* the workloads whose deploy command was asked
C4_Asked == {i \in 1..Len(workloadNames.s) : Logged(Call("deploy.Ask", i, "ok"))
                                             \/ Logged(Call("deploy.Ask", i, "error"))}
C4_FailedInStage == Failed /\ idx >= 1 /\ Last.op \in WkldStageOps /\ Last.r = "error"

\* C4 as stated: when workload k is the first to fail, exactly the workloads
\* 1..k-1 had all four stages invoked, exactly 1..k were asked when k failed
\* in a stage, and nothing was called for k+1..N.
C4_ExactlyEarlierHadFourStages ==
    (Failed /\ idx >= 1) =>
        /\ C4_AllFourInvoked = 1..(idx - 1)
        /\ C4_FailedInStage => C4_Asked = 1..idx
        /\ \A k \in LogIdx : log[k].i <= idx

\* C4 amended: when workload k is the first to fail, exactly the workloads
\* 1..k-1 had all four stages invoked and returning successfully (k itself
\* had all four invoked when it is its RecommendActions that failed),
\* exactly 1..k were asked when k failed in a stage, none of k..N was asked
\* when k failed before its stages, and nothing was called for k+1..N.
C4_FailFastBatch ==
    /\ \A k \in LogIdx : log[k].i <= idx
    /\ \A i \in 1..(idx - 1) : Len(StagesOf(i)) = 4 /\ AllOk(StagesOf(i))
    /\ (Failed /\ idx >= 1) =>
        /\ {i \in 1..Len(workloadNames.s) : Len(StagesOf(i)) = 4 /\ AllOk(StagesOf(i))}
             = 1..(idx - 1)
        /\ C4_AllFourInvoked \subseteq 1..idx
        /\ idx \in C4_AllFourInvoked => Last = Call("deploy.RecommendActions", idx, "error")
        /\ C4_FailedInStage => C4_Asked = 1..idx
        /\ ~C4_FailedInStage => C4_Asked = 1..(idx - 1)

\* the first workload of a longer batch failed in Execute
C4_Witness ==
    /\ Failed
    /\ idx = 1
    /\ Len(workloadNames.s) = MaxBatch
    /\ Last = Call("deploy.Execute", 1, "error")

----------------------------------------------------------------------------
(* C5 *)

\* C5: with the production factory, loadWkldCmd builds a deploy command for
\* every store type of the closed set: the job variant for a job type, the
\* service variant for every other type, and records the label "job" or
\* "svc" accordingly.
C5_ProductionFactoryBuilds ==
    (/\ factory = "production"
     /\ Len(log) > 0
     /\ Last.op = "setupDeployCmd"
     /\ storeType \in WorkloadTypes) =>
        /\ Last.r = "ok"
        /\ err = NoErr
        /\ pc = "Ask"
        /\ storeType \in JobTypes => deployCmd = "deployJobOpts" /\ wlType = "job"
        /\ storeType \notin JobTypes => deployCmd = "deploySvcOpts" /\ wlType = "svc"

----------------------------------------------------------------------------
(* C6 *)

C6_Word(op) ==
    CASE op = "deploy.Ask" -> "ask "
      [] op = "deploy.Validate" -> "validate "
      [] op = "deploy.Execute" -> "execute "
      [] OTHER -> "?"

\* C6: when Ask, Validate or Execute of a workload's deploy command fails
\* with cause c, Run() returns "<stage> <family> deploy: c" with the word of
\* the stage that failed and the family, "job" or "svc", of the store type
\* fetched in that same iteration.
C6_StageErrorTagged ==
    (/\ Failed
     /\ Len(log) > 0
     /\ Last.op \in {"deploy.Ask", "deploy.Validate", "deploy.Execute"}
     /\ Last.r = "error") =>
        /\ Logged(Call("store.GetWorkload", Last.i, "ok"))
        /\ err = <<C6_Word(Last.op),
                   IF storeType \in JobTypes THEN "job" ELSE "svc",
                   " deploy", ": ", SomeError>>

\* the second workload, a service, failed in Validate
C6_Witness ==
    /\ Failed
    /\ idx = 2
    /\ Last = Call("deploy.Validate", 2, "error")
    /\ storeType = "Load Balanced Web Service"
    /\ err = <<"validate ", "svc", " deploy", ": ", "some error">>

----------------------------------------------------------------------------
(* C7 *)

C7_RecommendFailed ==
    /\ Failed
    /\ Len(log) > 0
    /\ Last.op = "deploy.RecommendActions"
    /\ Last.r = "error"

----------------------------------------------------------------------------
(* C8 *)

\* C8: a call of maybeInitWkld(name) that finds name in the list returned
\* by Store.ListWorkloads returns success, makes no other call (no manifest
\* read, no prompt, no AddWorkloadToApp) and leaves initWorkload unchanged.
C8_ListedWorkloadSkipped ==
    [][ (/\ pc = "maybeInitWkld"
         /\ Len(log') > Len(log)
         /\ log'[Len(log) + 1] = Call("store.ListWorkloads", idx, "in")) =>
            /\ log' = Append(log, Call("store.ListWorkloads", idx, "in"))
            /\ pc' = "loadWkldCmd"
            /\ err' = NoErr
            /\ yesInitWkld' = yesInitWkld
            /\ added' = added
      ]_vars

\* a listed workload was skipped while initWorkload was still unset
C8_Witness ==
    /\ pc = "loadWkldCmd"
    /\ Last = Call("store.ListWorkloads", idx, "in")
    /\ yesInitWkld = NilBool
    /\ idx = 2

----------------------------------------------------------------------------
(* C9 *)

\* C9: when initEnv was forced before the run the environment-init
\* confirmation is never asked, when initWorkload was forced the
\* workload-init confirmation is never asked for any workload, and no
\* prompt depends on deployEnv: with both forced there is no prompt at all.
C9_ForcedFlagsNeverPrompt ==
    /\ flags0.initEnv # NilBool => ~Called("prompt.Confirm.env")
    /\ flags0.initWkld # NilBool => ~Called("prompt.Confirm.wkld")
    /\ (flags0.initEnv # NilBool /\ flags0.initWkld # NilBool) =>
           \A k \in LogIdx : log[k].op \notin PromptOps
    /\ \A k \in LogIdx : log[k].op = "prompt.Confirm.env" => log[k].i = 0

\* both decisions were taken on forced flags: one forced false, one forced true
C9_Witness ==
    /\ flags0.initEnv = "true" /\ flags0.initWkld = "false" /\ flags0.deployEnv = NilBool
    /\ Logged(Call("initEnv.Execute", 0, "ok"))
    /\ Failed
    /\ Last = Call("mf.WorkloadType", 1, "Scheduled Job")

----------------------------------------------------------------------------
(* C10 *)

\* the environment was not in the store, its init command ran to the end,
\* and deployEnv was unset before the run
C10_FreshlyInitialized ==
    /\ Logged(Call("store.GetEnvironment", 0, "notfound"))
    /\ Logged(Call("initEnv.Execute", 0, "ok"))
    /\ flags0.deployEnv = NilBool

\* the calls made on the environment-deploy command, constructor included
C10_DeployEnvCalls == SelectSeq(log, LAMBDA e : e.op \in DeployEnvOps)
\* the calls made after the init command's Execute
C10_AfterInit ==
    LET p == CHOOSE k \in LogIdx : log[k].op = "initEnv.Execute"
    IN  SubSeq(log, p + 1, Len(log))

\* C10 as stated: after such an initialization deployEnv is true and
\* Validate, Ask and Execute of the environment-deploy command are each
\* invoked exactly once, after the init command's Execute and before any
\* workload is processed.
C10_DeployEnvStagesExactlyOnce ==
    (C10_FreshlyInitialized /\ pc # "maybeDeployEnv") =>
        /\ deployEnv = "true"
        /\ IsPrefix(<<"newDeployEnvCmd", "deployEnv.Validate", "deployEnv.Ask",
                      "deployEnv.Execute">>, OpNames(C10_AfterInit))
        /\ \A op \in DeployEnvOps : Count(op) = 1

\* C10 amended: after such an initialization deployEnv is true and the
\* environment-deploy command is constructed exactly once, right after the
\* init command's Execute; its Validate, Ask and Execute are invoked in that
\* order, each at most once and only after the one before it succeeded, and
\* each exactly once before any workload is processed.
C10_DeployEnvAfterFreshInit ==
    C10_FreshlyInitialized =>
        /\ deployEnv = "true"
        /\ pc # "maybeDeployEnv" =>
            /\ Count("newDeployEnvCmd") = 1
            /\ IsPrefix(C10_DeployEnvCalls, C10_AfterInit)
            /\ IsPrefix(OpNames(C10_DeployEnvCalls),
                        <<"newDeployEnvCmd", "deployEnv.Validate", "deployEnv.Ask",
                          "deployEnv.Execute">>)
            /\ AllButLastOk(C10_DeployEnvCalls)
            /\ (pc \in LoopPcs \/ Succeeded \/ \E k \in LogIdx : log[k].i >= 1) =>
                   /\ Len(C10_DeployEnvCalls) = 4
                   /\ AllOk(C10_DeployEnvCalls)

\* confirmed at the prompt, initialized, deployed, and the first workload is being deployed
C10_Witness ==
    /\ C10_FreshlyInitialized
    /\ flags0.initEnv = NilBool
    /\ Logged(Call("prompt.Confirm.env", 0, "true"))
    /\ Logged(Call("deployEnv.Execute", 0, "ok"))
    /\ pc = "Validate"
    /\ idx = 1

----------------------------------------------------------------------------
(* C11 *)

\* the environment is not in the store, initialization was chosen and the init
\* command was set up, and deployEnv was forced false
C11_Case ==
    /\ Logged(Call("store.GetEnvironment", 0, "notfound"))
    /\ Called("newInitEnvCmd")
    /\ flags0.deployEnv = "false"

C11_Message == <<"environment ", envName, " was initialized but has not been deployed">>

\* the calls made on the environment-init command, constructor included
C11_InitEnvCalls == SelectSeq(log, LAMBDA e : e.op \in InitEnvOps)

\* no call on the environment-deploy command and no workload processed
C11_NothingFurther ==
    /\ \A k \in LogIdx : log[k].op \notin DeployEnvOps /\ log[k].i = 0
    /\ pc \notin LoopPcs \cup {"maybeDeployEnv"}

\* C11 as stated: in that case maybeInitEnv runs Validate, Ask and Execute of
\* the environment-init command and then fails with "environment <env> was
\* initialized but has not been deployed"; deployEnv stays false, no stage of
\* the environment-deploy command is invoked and no workload is processed.
C11_InitRunsThenNotDeployed ==
    C11_Case =>
        /\ OpNames(C11_InitEnvCalls)
             = <<"newInitEnvCmd", "initEnv.Validate", "initEnv.Ask", "initEnv.Execute">>
        /\ Failed
        /\ err = C11_Message
        /\ deployEnv = "false"
        /\ C11_NothingFurther

\* C11 amended: in that case Run() fails inside maybeInitEnv, deployEnv stays
\* false, no stage of the environment-deploy command is invoked and no workload
\* is processed; the init command's Validate, Ask and Execute are invoked in
\* that order up to the first that fails, whose error is returned unchanged,
\* and when all three succeed the error is "environment <env> was initialized
\* but has not been deployed".
C11_InitializedNotDeployed ==
    C11_Case =>
        /\ Failed
        /\ deployEnv = "false"
        /\ C11_NothingFurther
        /\ IsPrefix(OpNames(C11_InitEnvCalls),
                    <<"newInitEnvCmd", "initEnv.Validate", "initEnv.Ask", "initEnv.Execute">>)
        /\ AllButLastOk(C11_InitEnvCalls)
        /\ Last = C11_InitEnvCalls[Len(C11_InitEnvCalls)]
        /\ IF Last = Call("initEnv.Execute", 0, "ok")
           THEN err = C11_Message
           ELSE /\ Last.r = "error"
                /\ err = IF Last.op = "newInitEnvCmd"
                         THEN <<"load env init command ", ": ", SomeError>>
                         ELSE <<SomeError>>

\* initialization forced by flag, all three stages succeeded, the run has failed
C11_Witness ==
    /\ C11_Case
    /\ flags0.initEnv = "true"
    /\ Last = Call("initEnv.Execute", 0, "ok")
    /\ err = C11_Message

----------------------------------------------------------------------------
(* C12 *)

C12_Message == <<"env ", envName, " does not exist in app ", appName>>

\* C12: when the environment is not in the store and initEnv resolves false,
\* by flag or by the confirmation answer, maybeInitEnv fails with "env <env>
\* does not exist in app <app>" having made no call but the confirmation it
\* needed; a run that failed so has invoked no stage of the environment-init
\* or environment-deploy command and processed no workload.
C12_DeclinedInitRefused ==
    /\ [][(pc = "maybeInitEnv" /\ ~envExistsInApp /\ yesInitEnv' = "false") =>
            /\ pc' = "done"
            /\ err' = C12_Message
            /\ log' = IF yesInitEnv = "nil"
                      THEN Append(log, Call("prompt.Confirm.env", 0, "false"))
                      ELSE log]_vars
    /\ [](err = C12_Message =>
            /\ pc = "done"
            /\ \A k \in LogIdx : log[k].op \notin InitEnvOps \cup DeployEnvOps /\ log[k].i = 0)

\* the confirmation was answered false and the run has failed with the message
C12_Witness ==
    /\ Logged(Call("store.GetEnvironment", 0, "notfound"))
    /\ Last = Call("prompt.Confirm.env", 0, "false")
    /\ yesInitEnv = "false"
    /\ Failed
    /\ err = C12_Message

----------------------------------------------------------------------------
(* C13 *)

\* C13: a flag that was true or false at the start of Run() has that value in
\* every state; a flag changes only while it is unset: initEnv and
\* initWorkload to the answer of a confirmation asked in that step, deployEnv
\* to true in the step of maybeInitEnv that ends with the init command's
\* successful Execute; a decided flag never changes.
C13_FlagsDecidedOnce ==
    /\ [](/\ flags0.initEnv # "nil" => yesInitEnv = flags0.initEnv
          /\ flags0.initWkld # "nil" => yesInitWkld = flags0.initWkld
          /\ flags0.deployEnv # "nil" => deployEnv = flags0.deployEnv)
    /\ [][/\ yesInitEnv # "nil" => yesInitEnv' = yesInitEnv
          /\ yesInitWkld # "nil" => yesInitWkld' = yesInitWkld
          /\ deployEnv # "nil" => deployEnv' = deployEnv
          /\ yesInitEnv' # yesInitEnv =>
                /\ yesInitEnv' \in {"true", "false"}
                /\ log'[Len(log) + 1] = Call("prompt.Confirm.env", 0, yesInitEnv')
          /\ yesInitWkld' # yesInitWkld =>
                /\ yesInitWkld' \in {"true", "false"}
                /\ \E k \in (Len(log) + 1)..Len(log') :
                      log'[k] = Call("prompt.Confirm.wkld", idx, yesInitWkld')
          /\ deployEnv' # deployEnv =>
                /\ deployEnv' = "true"
                /\ pc = "maybeInitEnv"
                /\ Len(log') > Len(log)
                /\ log'[Len(log')] = Call("initEnv.Execute", 0, "ok")]_vars

\* all three flags started unset and have been decided, the third by a declined
\* workload initialization
C13_Witness ==
    /\ flags0 = [initWkld |-> "nil", initEnv |-> "nil", deployEnv |-> "nil"]
    /\ yesInitEnv = "true"
    /\ deployEnv = "true"
    /\ yesInitWkld = "false"
    /\ Logged(Call("prompt.Confirm.wkld", 1, "false"))

----------------------------------------------------------------------------
(* C14 *)

\* C14 as stated: once askName and askEnv have returned successfully, that is
\* when checkEnvExists is about to run, workloadNames is non-empty and envName
\* is non-empty, whatever the initial request was.
C14_ResolvedRequestNonEmpty ==
    pc = "checkEnvExists" =>
        /\ ~workloadNames.nil
        /\ Len(workloadNames.s) > 0
        /\ envName # ""

----------------------------------------------------------------------------
(* C15 *)

\* the errors checkEnvExists returns
C15_CheckErrors ==
    {<<"get environment from config store", ": ", SomeError>>,
     <<"list environments in workspace", ": ", SomeError>>,
     <<"environment \"", envName, "\" does not exist in the workspace">>}

\* checkEnvExists has run and returned success
C15_Returned == Called("store.GetEnvironment") /\ err \notin C15_CheckErrors

\* C15: whenever checkEnvExists has returned success, envExistsInApp is true
\* exactly when Store.GetEnvironment returned no error and false exactly when
\* it returned not-found, envExistsInWs is true exactly when envName is in the
\* workspace environment list, and one of the two is true.
C15_ExistenceFlagsExact ==
    C15_Returned =>
        /\ envExistsInApp <=> Logged(Call("store.GetEnvironment", 0, "ok"))
        /\ ~envExistsInApp <=> Logged(Call("store.GetEnvironment", 0, "notfound"))
        /\ ~wsEnvironments.nil
        /\ envExistsInWs <=> \E k \in 1..Len(wsEnvironments.s) : wsEnvironments.s[k] = envName
        /\ envExistsInApp \/ envExistsInWs

\* the store answered not-found, the workspace has the environment, the check passed
C15_Witness ==
    /\ C15_Returned
    /\ pc = "maybeInitEnv"
    /\ Last = Call("ws.ListEnvironments", 0, "ok")
    /\ ~envExistsInApp
    /\ envExistsInWs

----------------------------------------------------------------------------
(* C16 *)

\* C16: a failure of Store.GetEnvironment other than not-found ends the run
\* with "get environment from config store: <cause>" and is the last call made,
\* so the workspace is not queried after it and every run that went past
\* Store.GetEnvironment got success or not-found from it; a failure of the
\* workspace listing made by checkEnvExists ends the run with "list
\* environments in workspace: <cause>".
C16_StoreOrWorkspaceFailureFatal ==
    \A k \in LogIdx :
        /\ log[k] = Call("store.GetEnvironment", 0, "error") =>
              /\ k = Len(log)
              /\ Failed
              /\ err = <<"get environment from config store", ": ", SomeError>>
        /\ (log[k].op = "store.GetEnvironment" /\ (k < Len(log) \/ pc # "done")) =>
              log[k].r \in {"ok", "notfound"}
        /\ (k > 1 /\ log[k - 1].op = "store.GetEnvironment"
                  /\ log[k] = Call("ws.ListEnvironments", 0, "error")) =>
              /\ k = Len(log)
              /\ Failed
              /\ err = <<"list environments in workspace", ": ", SomeError>>

\* the store failed in checkEnvExists before the workspace was ever listed
C16_Witness ==
    /\ Failed
    /\ Len(log) > 0
    /\ Last = Call("store.GetEnvironment", 0, "error")
    /\ wsEnvironments.nil
    /\ ~Called("ws.ListEnvironments")

----------------------------------------------------------------------------
(* C17 *)

\* the calls a step adds to the history
C17_NewCalls == SubSeq(log', Len(log) + 1, Len(log'))

\* C17 as stated: maybeDeployEnv invokes Validate, then Ask, then Execute of
\* the environment-deploy command if and only if envExistsInWs and deployEnv
\* are true; otherwise it invokes nothing and returns success.
C17_DeploysEnvIffInWsAndTrue ==
    [][pc = "maybeDeployEnv" =>
          IF envExistsInWs /\ deployEnv = "true"
          THEN OpNames(SelectSeq(C17_NewCalls, LAMBDA e : e.op # "newDeployEnvCmd"))
                 = <<"deployEnv.Validate", "deployEnv.Ask", "deployEnv.Execute">>
          ELSE log' = log /\ err' = NoErr /\ pc' # "maybeDeployEnv"]_vars

\* C17 amended: maybeDeployEnv sets up the environment-deploy command if and
\* only if envExistsInWs and deployEnv are true, and then invokes Validate,
\* then Ask, then Execute, each only when the set-up and the stages before it
\* succeeded, failing exactly when one of them failed; otherwise it invokes
\* nothing and returns success; no other step calls that command.
C17_DeployEnvDecision ==
    [][IF pc = "maybeDeployEnv"
       THEN IF envExistsInWs /\ deployEnv = "true"
            THEN /\ Len(C17_NewCalls) > 0
                 /\ IsPrefix(OpNames(C17_NewCalls),
                             <<"newDeployEnvCmd", "deployEnv.Validate", "deployEnv.Ask",
                               "deployEnv.Execute">>)
                 /\ AllButLastOk(C17_NewCalls)
                 /\ IF C17_NewCalls[Len(C17_NewCalls)].r = "ok"
                    THEN Len(C17_NewCalls) = 4 /\ err' = NoErr
                    ELSE pc' = "done" /\ err' # NoErr
            ELSE log' = log /\ err' = NoErr /\ pc' # "maybeDeployEnv"
       ELSE \A k \in 1..Len(C17_NewCalls) : C17_NewCalls[k].op \notin DeployEnvOps]_vars

\* an environment of the store and of the workspace was deployed by flag
C17_Witness ==
    /\ envExistsInApp
    /\ envExistsInWs
    /\ flags0.deployEnv = "true"
    /\ Last = Call("deployEnv.Execute", 0, "ok")

----------------------------------------------------------------------------
(* C18 *)

\* the manifest of the workload of iteration i was read and declares a known type
C18_KnownType(i) == \E t \in WorkloadTypes : Logged(Call("mf.WorkloadType", i, t))

\* C18: in one run the workload-init confirmation is asked at most once; its
\* answer is kept in yesInitWkld; after an answer of true every later workload
\* that is not in the store and declares a known type is added without a
\* confirmation.
C18_WkldConfirmedAtMostOnce ==
    /\ Count("prompt.Confirm.wkld") <= 1
    /\ \A k \in LogIdx :
          (log[k].op = "prompt.Confirm.wkld" /\ log[k].r # "error") =>
              /\ yesInitWkld = log[k].r
              /\ log[k].r = "true" =>
                    \A m \in (k + 1)..Len(log) :
                        (log[m].op = "mf.WorkloadType" /\ log[m].r \in WorkloadTypes) =>
                            /\ m < Len(log)
                            /\ log[m + 1].op = "AddWorkloadToApp"
                            /\ log[m + 1].i = log[m].i

\* the first workload was confirmed and added, the second was added unasked
C18_Witness ==
    /\ Count("prompt.Confirm.wkld") = 1
    /\ Logged(Call("prompt.Confirm.wkld", 1, "true"))
    /\ Logged(Call("AddWorkloadToApp", 1, "ok"))
    /\ C18_KnownType(2)
    /\ Logged(Call("AddWorkloadToApp", 2, "ok"))

----------------------------------------------------------------------------
(* C19 *)

\* C19: when a workload is not in the store, its manifest declares a known
\* type and initWorkload resolves false, by flag or by answer, the run fails
\* with "workload <name> is uninitialized but --init-wkld=false was specified"
\* and neither AddWorkloadToApp nor Store.GetWorkload nor the factory nor any
\* deploy stage is called for that workload.
C19_DeclinedWkldRefused ==
    \A i \in 1..Len(workloadNames.s) :
        (yesInitWkld = "false" /\ C18_KnownType(i)) =>
            /\ Logged(Call("store.ListWorkloads", i, "out"))
            /\ Failed
            /\ err = <<"workload ", workloadNames.s[i], " is uninitialized but --",
                       "init-wkld", "=false was specified">>
            /\ \A k \in LogIdx :
                  log[k].i = i =>
                      log[k].op \notin {"AddWorkloadToApp"} \cup WkldLoadOps \cup WkldStageOps

\* forced false: the first workload was in the store and deployed, the second is refused
C19_Witness ==
    /\ flags0.initWkld = "false"
    /\ Logged(Call("deploy.RecommendActions", 1, "ok"))
    /\ C18_KnownType(2)
    /\ Failed

----------------------------------------------------------------------------
(* C20 *)

\* the calls of iteration i are Store.ListWorkloads and the reading of the manifest only
C20_OnlyRead(i) ==
    \A k \in LogIdx :
        log[k].i = i =>
            log[k].op \in {"store.ListWorkloads", "ws.ReadWorkloadManifest", "mf.WorkloadType"}

\* C20: when the manifest of a workload that is not in the store cannot be
\* read, or its type cannot be extracted, or the type is not a known workload
\* type, the run fails there with "read manifest for workload <name>: <cause>",
\* "get workload type from manifest for workload <name>: <cause>" or
\* "unrecognized workload type <type> in manifest for workload <name>", no
\* confirmation, AddWorkloadToApp or deploy stage having been called for that
\* workload; every call of AddWorkloadToApp follows a manifest of a known type.
C20_BadManifestRefused ==
    /\ \A k \in LogIdx :
          LET e == log[k]
              name == workloadNames.s[e.i]
              refused(m) == k = Len(log) /\ Failed /\ err = m /\ C20_OnlyRead(e.i)
          IN  /\ (e.op = "ws.ReadWorkloadManifest" /\ e.r = "error") =>
                    refused(<<"read manifest for workload ", name, ": ", SomeError>>)
              /\ (e.op = "mf.WorkloadType" /\ e.r = "error") =>
                    refused(<<"get workload type from manifest for workload ", name,
                              ": ", SomeError>>)
              /\ (e.op = "mf.WorkloadType" /\ e.r \notin WorkloadTypes \cup {"error"}) =>
                    refused(<<"unrecognized workload type \"", e.r,
                              "\" in manifest for workload ", name>>)
              /\ e.op \in {"ws.ReadWorkloadManifest", "mf.WorkloadType"} =>
                    Logged(Call("store.ListWorkloads", e.i, "out"))
              /\ e.op = "AddWorkloadToApp" =>
                    \E m \in 1..(k - 1) :
                        /\ log[m].i = e.i
                        /\ log[m].op = "mf.WorkloadType"
                        /\ log[m].r \in WorkloadTypes
    /\ \A a \in added : a.type \in WorkloadTypes

\* the first workload was added, the manifest of the second declares an unknown type
C20_Witness ==
    /\ Failed
    /\ Logged(Call("AddWorkloadToApp", 1, "ok"))
    /\ Last = Call("mf.WorkloadType", 2, UnknownType)
    /\ yesInitWkld = "true"

----------------------------------------------------------------------------
(* C21 *)

\* C21: in one run Workspace.ListEnvironments is queried at most once; once it
\* has answered, whatever the answer, the list is cached (not nil), and when
\* askEnv made the query no query follows Store.GetEnvironment.
C21_WsListedAtMostOnce ==
    /\ Count("ws.ListEnvironments") <= 1
    /\ Logged(Call("ws.ListEnvironments", 0, "ok")) => ~wsEnvironments.nil
    /\ \A j, k \in LogIdx :
          (j < k /\ log[j].op = "ws.ListEnvironments" /\ log[k].op = "store.GetEnvironment") =>
              \A m \in (k + 1)..Len(log) : log[m].op # "ws.ListEnvironments"

\* askEnv got a list without names, checkEnvExists has passed on the store's word
C21_Witness ==
    /\ Called("sel.Environment")
    /\ wsEnvironments = Slice(<<>>)
    /\ pc = "maybeInitEnv"
    /\ envExistsInApp
    /\ Count("ws.ListEnvironments") = 1

----------------------------------------------------------------------------
(* C22 *)

\* the failure of call op ended the run in askEnv with the tag on its cause
C22_Aborted(op, tag) ==
    Logged(Call(op, 0, "error")) =>
        /\ Last = Call(op, 0, "error")
        /\ Failed
        /\ err = <<tag, ": ", SomeError>>
        /\ ~Called("sel.Environment") \/ op = "sel.Environment"

\* the workspace listing failed in askEnv, not in checkEnvExists
C22_WsFailedInAskEnv ==
    /\ Logged(Call("ws.ListEnvironments", 0, "error"))
    /\ ~Called("store.GetEnvironment")

\* C22 as stated: in askEnv a failure of the workspace listing or of the store
\* listing ends the run with the tag "get initialized environments" and the
\* selector is not invoked; a failure of the selector has the tag "get
\* environment name".
C22_ListingFailuresShareTag ==
    /\ C22_WsFailedInAskEnv =>
          C22_Aborted("ws.ListEnvironments", "get initialized environments")
    /\ C22_Aborted("store.ListEnvironments", "get initialized environments")
    /\ C22_Aborted("sel.Environment", "get environment name")

\* C22 amended: in askEnv a failure of the workspace listing ends the run with
\* the tag "get workspace environments", a failure of the store listing with
\* the tag "get initialized environments", in both cases without the selector
\* being invoked; a failure of the selector has the tag "get environment name".
C22_ListingFailuresTagged ==
    /\ C22_WsFailedInAskEnv =>
          C22_Aborted("ws.ListEnvironments", "get workspace environments")
    /\ C22_Aborted("store.ListEnvironments", "get initialized environments")
    /\ C22_Aborted("sel.Environment", "get environment name")

\* the workspace listing has failed in askEnv
C22_Witness ==
    /\ C22_WsFailedInAskEnv
    /\ envName = ""
    /\ err = <<"get workspace environments", ": ", SomeError>>

----------------------------------------------------------------------------
(* C23 *)

\* the positions of the workspace list whose name the store did not return
C23_Kept == {i \in 1..Len(wsEnvironments.s) : wsEnvironments.s[i] \notin storeEnvs}

\* the j-th of those positions
C23_Nth(j) == CHOOSE i \in C23_Kept : Cardinality({m \in C23_Kept : m < i}) = j - 1

\* C23: the extra options askEnv passes to Selector.Environment are the names
\* of the workspace list that the store did not return, one option for each
\* such position of the list and in the order of the list, each with the hint
\* "uninitialized"; a name the store returned is never an extra option.
C23_ExtraOptionsAreUninitialized ==
    IF Called("sel.Environment")
    THEN /\ Len(extraOptions) = Cardinality(C23_Kept)
         /\ \A j \in 1..Len(extraOptions) :
               /\ extraOptions[j] = [Value |-> wsEnvironments.s[C23_Nth(j)],
                                     Hint |-> "uninitialized"]
               /\ extraOptions[j].Value \notin storeEnvs
    ELSE extraOptions = <<>>

\* the workspace declares prod and test, the store has test only: prod is the one extra option
C23_Witness ==
    /\ Called("sel.Environment")
    /\ wsEnvironments = Slice(<<"prod", "test">>)
    /\ storeEnvs = {"test"}
    /\ extraOptions = <<[Value |-> "prod", Hint |-> "uninitialized"]>>

----------------------------------------------------------------------------
(* C24 *)

\* C24 as stated: when Store.GetWorkload fails for a workload, the run fails
\* with "retrieve <name> from application <appName>: <cause>", the workload
\* name first, no deploy command is built for the workload and the label is
\* the one recorded before.
C24_RetrieveErrorNamesWorkloadFirst ==
    \A k \in LogIdx :
        (log[k].op = "store.GetWorkload" /\ log[k].r = "error") =>
            /\ k = Len(log)
            /\ Failed
            /\ err = <<"retrieve ", workloadNames.s[log[k].i], " from application ", appName,
                       ": ", SomeError>>
            /\ \A m \in LogIdx : log[m].i = log[k].i => log[m].op # "setupDeployCmd"
            /\ wlType = "" <=> ~\E m \in LogIdx : log[m] = Call("setupDeployCmd", log[m].i, "ok")

----------------------------------------------------------------------------
(* C25 *)

\* the calls made on the command whose constructor and stages are ops
C25_CallsOn(ops) == SelectSeq(log, LAMBDA e : \E j \in 1..Len(ops) : ops[j] = e.op)

\* the command is driven in the order of ops; a failing stage is the last call
\* of the run and its error is what Run() returns
C25_Driven(ops) ==
    LET calls == C25_CallsOn(ops)
    IN  /\ IsPrefix(OpNames(calls), ops)
        /\ AllButLastOk(calls)
        /\ (Len(calls) > 1 /\ calls[Len(calls)].r = "error") =>
              /\ Last = calls[Len(calls)]
              /\ Failed
              /\ err = <<SomeError>>

\* C25: the environment-init command and the environment-deploy command are
\* each driven Validate, then Ask, then Execute; a failing stage is the last
\* stage invoked on its command and ends the run with the stage's error as it
\* is; after a failing stage of the init command deployEnv is what it was.
C25_EnvCommandsFailFast ==
    /\ C25_Driven(<<"newInitEnvCmd", "initEnv.Validate", "initEnv.Ask", "initEnv.Execute">>)
    /\ C25_Driven(<<"newDeployEnvCmd", "deployEnv.Validate", "deployEnv.Ask",
                    "deployEnv.Execute">>)
    /\ (\E op \in InitEnvOps \ {"newInitEnvCmd"} : Logged(Call(op, 0, "error"))) =>
          deployEnv = flags0.deployEnv

\* initialization was confirmed, Validate succeeded, Ask has failed; deployEnv is still unset
C25_Witness ==
    /\ Failed
    /\ Len(log) > 0
    /\ Last = Call("initEnv.Ask", 0, "error")
    /\ Logged(Call("prompt.Confirm.env", 0, "true"))
    /\ flags0.deployEnv = "nil"
    /\ deployEnv = "nil"

----------------------------------------------------------------------------
(* C26 *)

\* C26: when envExistsInApp is true maybeInitEnv returns nil having called
\* nothing and changed neither yesInitEnv nor deployEnv; so in a run where the
\* store has the environment there is no confirmation of and no call on the
\* init command, both flags are what they were at the start, and the
\* environment-deploy command is set up only if deployEnv was forced true.
C26_RegisteredEnvNotInitialized ==
    /\ [][(pc = "maybeInitEnv" /\ envExistsInApp) =>
            /\ log' = log
            /\ err' = NoErr
            /\ pc' = "maybeDeployEnv"
            /\ yesInitEnv' = yesInitEnv
            /\ deployEnv' = deployEnv]_vars
    /\ [](Logged(Call("store.GetEnvironment", 0, "ok")) =>
            /\ \A k \in LogIdx : log[k].op \notin InitEnvOps \cup {"prompt.Confirm.env"}
            /\ yesInitEnv = flags0.initEnv
            /\ deployEnv = flags0.deployEnv
            /\ Called("newDeployEnvCmd") => flags0.deployEnv = "true")

\* the store and the workspace have the environment, deployEnv is unset: the
\* loop starts with nothing deployed
C26_Witness ==
    /\ Logged(Call("store.GetEnvironment", 0, "ok"))
    /\ envExistsInWs
    /\ flags0.deployEnv = "nil"
    /\ flags0.initEnv = "nil"
    /\ deployEnv = "nil"
    /\ pc = "maybeInitWkld"
    /\ ~Called("newDeployEnvCmd")

----------------------------------------------------------------------------
(* C27 *)

\* C27: a failure of Store.ListWorkloads ends the run with "retrieve
\* workloads: <cause>" and is the only call made for that workload; a failure
\* of AddWorkloadToApp ends the run with "add workload to app: <cause>" and is
\* the last call made; a failure of the workload confirmation ends the run
\* with "confirm initialize workload: <cause>", is the last call made and
\* leaves yesInitWkld unset.
C27_WkldInitFailuresFatal ==
    \A k \in LogIdx :
        LET e == log[k]
            fatal(tag) == k = Len(log) /\ Failed /\ err = <<tag, ": ", SomeError>>
        IN  /\ (e.op = "store.ListWorkloads" /\ e.r = "error") =>
                  /\ fatal("retrieve workloads")
                  /\ \A m \in LogIdx : log[m].i = e.i => m = k
            /\ (e.op = "AddWorkloadToApp" /\ e.r = "error") =>
                  fatal("add workload to app")
            /\ (e.op = "prompt.Confirm.wkld" /\ e.r = "error") =>
                  /\ fatal("confirm initialize workload")
                  /\ yesInitWkld = "nil"

\* the first workload was deployed, the confirmation for the second has failed
C27_Witness ==
    /\ Failed
    /\ Logged(Call("deploy.RecommendActions", 1, "ok"))
    /\ Last = Call("prompt.Confirm.wkld", 2, "error")
    /\ yesInitWkld = "nil"

----------------------------------------------------------------------------
(* C28 *)

\* C28: the workloads are processed one after the other in the order of
\* workloadNames: the calls of one workload are contiguous, the first call for
\* workload i+1 is Store.ListWorkloads and directly follows the successful
\* RecommendActions of workload i, Store.ListWorkloads is called once for each
\* workload begun, and no step removes a call from the history or a workload
\* from those added, whatever fails later.
C28_OneWorkloadAtATime ==
    /\ [](/\ \A k \in 1..(Len(log) - 1) :
                \/ log[k + 1].i = log[k].i
                \/ /\ log[k + 1].i = log[k].i + 1
                   /\ log[k + 1].op = "store.ListWorkloads"
                   /\ log[k].i >= 1 => log[k] = Call("deploy.RecommendActions", log[k].i, "ok")
          /\ \A i \in 1..Len(workloadNames.s) :
                Cardinality({k \in LogIdx : log[k].i = i /\ log[k].op = "store.ListWorkloads"})
                    = IF i < idx \/ (i = idx /\ pc # "maybeInitWkld") THEN 1 ELSE 0
          /\ pc \in LoopPcs => idx \in 1..Len(workloadNames.s))
    /\ [][/\ IsPrefix(log, log')
          /\ added \subseteq added'
          /\ idx' \in {idx, idx + 1}
          /\ workloadNames' # workloadNames => pc = "askName"]_vars

\* the first workload was deployed, the deploy of the second has failed
C28_Witness ==
    /\ Failed
    /\ Logged(Call("deploy.RecommendActions", 1, "ok"))
    /\ Last = Call("deploy.Execute", 2, "error")
    /\ workloadNames = Slice(<<"mailer", "fe">>)

----------------------------------------------------------------------------
(* C29 *)

\* the tri-state flag is unset exactly when the command-line flag f was not
\* passed, and is the passed boolean otherwise
C29_TriState(flag, f) ==
    /\ flag = "nil" <=> ~f.changed
    /\ f.changed => flag = (IF f.value THEN "true" ELSE "false")

\* C29: when RunE calls Run(), each of yesInitWkld, yesInitEnv and deployEnv is
\* unset exactly when its flag was not passed on the command line and is the
\* passed boolean otherwise, and workloadNames is the one name given when
\* --name was passed and nil otherwise.
C29_FlagsMappedToTriStates ==
    [][(pc = "RunE" /\ pc' # "done") =>
          /\ C29_TriState(yesInitWkld', args.initWkld)
          /\ C29_TriState(yesInitEnv', args.initEnv)
          /\ C29_TriState(deployEnv', args.deployEnv)
          /\ workloadNames' = IF args.name.changed
                              THEN [nil |-> FALSE, s |-> <<args.name.value>>]
                              ELSE [nil |-> TRUE, s |-> <<>>]]_vars

\* --deploy-env=false --name fe, the other two flags not passed: Run() is about to start
C29_Witness ==
    /\ pc = "askName"
    /\ args.deployEnv = [changed |-> TRUE, value |-> FALSE]
    /\ ~args.initEnv.changed
    /\ ~args.initWkld.changed
    /\ args.name = [changed |-> TRUE, value |-> "fe"]
    /\ deployEnv = "false"
    /\ yesInitEnv = "nil"
    /\ yesInitWkld = "nil"
    /\ workloadNames = Slice(<<"fe">>)

----------------------------------------------------------------------------
(* C30 *)

\* the calls a run makes at most once
C30_OnceOps ==
    {"store.GetEnvironment", "sel.Workload", "sel.Environment", "prompt.Confirm.env"}
        \cup InitEnvOps \cup DeployEnvOps

\* C30: in one run Store.GetEnvironment, Selector.Workload,
\* Selector.Environment and the environment-init confirmation are each called
\* at most once, and the environment-init command and the environment-deploy
\* command are each constructed at most once and each of their stages is
\* invoked at most once.
C30_EnvStepsAtMostOnce == \A op \in C30_OnceOps : Count(op) <= 1

\* every one of those calls has been made and the first workload is being processed
C30_Witness ==
    /\ \A op \in C30_OnceOps : Count(op) = 1
    /\ pc = "loadWkldCmd"

----------------------------------------------------------------------------
(* C31 *)

\* a stage of a workload deploy command has been invoked
C31_WkldStageInvoked == \E k \in LogIdx : log[k].op \in WkldStageOps

\* C31: a stage of a workload deploy command is invoked only in a run where
\* Store.GetEnvironment found the environment, or where Execute of the
\* environment-init command and after it Execute of the environment-deploy
\* command succeeded before the stage.
C31_WkldDeployedToDeployedEnvOnly ==
    \A k \in LogIdx :
        log[k].op \in WkldStageOps =>
            \/ \E g \in 1..(k - 1) : log[g] = Call("store.GetEnvironment", 0, "ok")
            \/ \E g, h \in 1..(k - 1) :
                  /\ g < h
                  /\ log[g] = Call("initEnv.Execute", 0, "ok")
                  /\ log[h] = Call("deployEnv.Execute", 0, "ok")

\* the environment was initialized and deployed in this run and a workload stage has run
C31_Witness ==
    /\ Logged(Call("store.GetEnvironment", 0, "notfound"))
    /\ Logged(Call("deployEnv.Execute", 0, "ok"))
    /\ Logged(Call("deploy.Ask", 1, "ok"))

----------------------------------------------------------------------------
(* C32 *)

\* C32: a stage of the deploy command of a workload is invoked only after, in
\* the iteration of that workload, Store.ListWorkloads listed it or
\* AddWorkloadToApp succeeded for it, and Store.GetWorkload succeeded after that.
C32_WkldDeployedWhenRegisteredOnly ==
    \A k \in LogIdx :
        log[k].op \in WkldStageOps =>
            \E g, h \in 1..(k - 1) :
                /\ g < h
                /\ log[g] \in {Call("store.ListWorkloads", log[k].i, "in"),
                               Call("AddWorkloadToApp", log[k].i, "ok")}
                /\ log[h] = Call("store.GetWorkload", log[k].i, "ok")

\* the second workload was added in its iteration and its Execute has been invoked
C32_Witness ==
    /\ Logged(Call("AddWorkloadToApp", 2, "ok"))
    /\ Logged(Call("store.ListWorkloads", 1, "in"))
    /\ Called("deploy.Execute")
    /\ Last.i = 2
    /\ Last.op = "deploy.Execute"

----------------------------------------------------------------------------
(* C33 *)

\* C33 as stated: when Run() has returned nil, the four stages were invoked
\* once each and succeeded for every entry of workloadNames, and there is at
\* least one entry: something was deployed.
C33_SuccessMeansDeployed ==
    Succeeded =>
        /\ Len(workloadNames.s) >= 1
        /\ \A i \in 1..Len(workloadNames.s) :
              /\ Len(StagesOf(i)) = Cardinality(WkldStageOps)
              /\ \A op \in WkldStageOps : Logged(Call(op, i, "ok"))

----------------------------------------------------------------------------
(* C34 *)

\* the workspace was listed and does not have the environment
C34_NotInWorkspace ==
    /\ ~wsEnvironments.nil
    /\ envName # ""
    /\ \A k \in 1..Len(wsEnvironments.s) : wsEnvironments.s[k] # envName

\* C34: in a run where the workspace list does not have the resolved
\* environment, the environment-init command and the environment-deploy
\* command are never set up and none of their stages is invoked, whatever
\* yesInitEnv and deployEnv are; the run fails in checkEnvExists unless the
\* store has the environment.
C34_NoManifestNoEnvCommands ==
    C34_NotInWorkspace =>
        /\ \A k \in LogIdx : log[k].op \notin InitEnvOps \cup DeployEnvOps
        /\ pc \notin {"askEnv", "checkEnvExists"} =>
              \/ Logged(Call("store.GetEnvironment", 0, "ok"))
              \/ Failed /\ Last.op \in {"store.GetEnvironment", "ws.ListEnvironments"}

\* the store has the environment, the workspace does not: deployEnv was forced
\* true and the loop starts with nothing deployed
C34_Witness ==
    /\ C34_NotInWorkspace
    /\ flags0.deployEnv = "true"
    /\ flags0.initEnv = "true"
    /\ pc = "maybeInitWkld"
    /\ envExistsInApp

----------------------------------------------------------------------------
(* C35 *)

\* C35: envExistsInApp and envExistsInWs are changed by checkEnvExists only,
\* workloadNames by askName only and envName by askEnv only; so after a
\* successful Execute of the environment-init command envExistsInApp is still
\* false, to the end of the run.
C35_ExistenceWrittenByCheckOnly ==
    /\ [][/\ pc # "checkEnvExists" =>
                /\ envExistsInApp' = envExistsInApp
                /\ envExistsInWs' = envExistsInWs
          /\ pc # "askName" => workloadNames' = workloadNames
          /\ pc # "askEnv" => envName' = envName]_vars
    /\ [](Logged(Call("initEnv.Execute", 0, "ok")) => ~envExistsInApp)

\* the environment was initialized and deployed; the second workload is being deployed
C35_Witness ==
    /\ Logged(Call("initEnv.Execute", 0, "ok"))
    /\ ~envExistsInApp
    /\ envExistsInWs
    /\ pc = "Execute"
    /\ idx = 2

----------------------------------------------------------------------------
(* C36 *)

\* the calls of AddWorkloadToApp made for name n
C36_AddsOf(n) ==
    {k \in LogIdx : log[k].op = "AddWorkloadToApp" /\ workloadNames.s[log[k].i] = n}

\* C36: with a store whose list shows the workloads added in this run,
\* AddWorkloadToApp is called at most once for each workload name, however
\* often the name occurs in workloadNames: in a later iteration of a name
\* added before, Store.ListWorkloads is called again and, when it answers,
\* lists the name, and neither the manifest is read nor the workload added.
C36_AddedOncePerName ==
    /\ \A i \in 1..Len(workloadNames.s) : Cardinality(C36_AddsOf(workloadNames.s[i])) <= 1
    /\ \A k \in LogIdx :
          log[k].op = "AddWorkloadToApp" /\ log[k].r = "ok" =>
              \A j \in (log[k].i + 1)..Len(workloadNames.s) :
                  (workloadNames.s[j] = workloadNames.s[log[k].i]
                      /\ (j < idx \/ (j = idx /\ pc # "maybeInitWkld"))) =>
                      /\ \E m \in LogIdx : log[m].i = j /\ log[m].op = "store.ListWorkloads"
                                            /\ log[m].r \in {"in", "error"}
                      /\ \A m \in LogIdx :
                            log[m].i = j =>
                                log[m].op \notin {"ws.ReadWorkloadManifest", "mf.WorkloadType",
                                                  "prompt.Confirm.wkld", "AddWorkloadToApp"}

\* fe is named twice: added in the first iteration, found listed and deployed again in the second
C36_Witness ==
    /\ workloadNames = Slice(<<"fe", "fe">>)
    /\ Logged(Call("AddWorkloadToApp", 1, "ok"))
    /\ Logged(Call("deploy.RecommendActions", 1, "ok"))
    /\ Logged(Call("store.ListWorkloads", 2, "in"))
    /\ Logged(Call("deploy.RecommendActions", 2, "ok"))
    /\ Succeeded

----------------------------------------------------------------------------
(* C37 *)

\* the calls Run() can make before the loop, and in one iteration of it
C37_EnvOps ==
    {"sel.Workload", "ws.ListEnvironments", "store.ListEnvironments", "sel.Environment",
     "store.GetEnvironment", "prompt.Confirm.env"} \cup InitEnvOps \cup DeployEnvOps
C37_WkldOps == WkldInitOps \cup WkldLoadOps \cup WkldStageOps

\* the position of a statement in Run(); the loop statements follow the phases
C37_Rank(p) ==
    IF p = "done" THEN Len(RunPhases) + Cardinality(LoopPcs) + 1
    ELSE IF p \in LoopPcs
    THEN Len(RunPhases)
           + (CHOOSE j \in 1..Cardinality(LoopPcs) :
                <<"maybeInitWkld", "loadWkldCmd", "Ask", "Validate", "Execute",
                  "RecommendActions">>[j] = p)
    ELSE CHOOSE j \in 1..Len(RunPhases) : RunPhases[j] = p

\* C37: when every collaborator call returns, Run() returns; until then every
\* step moves forward in Run(), to a later statement or to the next workload,
\* so no phase is entered twice and no call is made again; the calls made
\* number at most those of the environment phases plus those of one iteration
\* for each entry of workloadNames; the error is set only when Run() returns.
C37_RunTerminates ==
    /\ <>(pc = "done")
    /\ [](/\ Len(log) <= Cardinality(C37_EnvOps)
                           + Cardinality(C37_WkldOps) * Len(workloadNames.s)
          /\ \A op \in C37_EnvOps : Count(op) <= 1
          /\ \A j, k \in LogIdx : (log[j].i >= 1 /\ log[j].i = log[k].i /\ log[j].op = log[k].op)
                                      => j = k
          /\ err # NoErr => pc = "done")
    /\ [][\/ idx' = idx + 1 /\ pc' = "maybeInitWkld"
          \/ idx' = idx /\ C37_Rank(pc') > C37_Rank(pc)]_vars

\* a batch of two workloads was deployed and Run() has returned nil
C37_Witness ==
    /\ Succeeded
    /\ Len(workloadNames.s) = MaxBatch
    /\ Logged(Call("deploy.RecommendActions", MaxBatch, "ok"))

----------------------------------------------------------------------------
(* C38 *)

\* the family of a store type
C38_Family(type) == IF type \in JobTypes THEN "job" ELSE "svc"

\* an execution with calls l, that fetched store type t last, returned the
\* failure e of Ask, Validate or Execute with the label of the other family
C38_ForeignLabel(l, e, t) ==
    /\ e # NoErr
    /\ Len(l) > 0
    /\ l[Len(l)].op \in {"deploy.Ask", "deploy.Validate", "deploy.Execute"}
    /\ l[Len(l)].r = "error"
    /\ e[2] # C38_Family(t)

\* an execution with calls l added a workload to the application without
\* having been answered yes before
C38_AddedUnasked(l) ==
    \E k \in 1..Len(l) :
        /\ l[k].op = "AddWorkloadToApp"
        /\ ~\E j \in 1..k : l[j].op = "prompt.Confirm.wkld" /\ l[j].r = "true"

\* an execution with calls l refused a workload as declined without having
\* been answered no
C38_RefusedUnasked(l, e) ==
    /\ Len(e) = 5
    /\ e[1] = "workload "
    /\ e[3] = " is uninitialized but --"
    /\ ~\E j \in 1..Len(l) : l[j].op = "prompt.Confirm.wkld" /\ l[j].r = "false"

\* an execution with calls l set up the environment-deploy command without
\* having run the init command
C38_DeployedUninferred(l) ==
    /\ \E k \in 1..Len(l) : l[k].op = "newDeployEnvCmd"
    /\ ~\E j \in 1..Len(l) : l[j] = Call("initEnv.Execute", 0, "ok")

\* whatever an execution (l, e, t) shows that it did not decide itself was
\* decided by the execution with calls l2
C38_Borrowed(l, e, t, l2) ==
    /\ C38_ForeignLabel(l, e, t) =>
           \E k \in 1..Len(l2) : l2[k].op = "setupDeployCmd" /\ l2[k].r = "ok"
    /\ C38_AddedUnasked(l) =>
           \E k \in 1..Len(l2) : l2[k] = Call("prompt.Confirm.wkld", l2[k].i, "true")
    /\ C38_RefusedUnasked(l, e) =>
           \E k \in 1..Len(l2) : l2[k] = Call("prompt.Confirm.wkld", l2[k].i, "false")
    /\ C38_DeployedUninferred(l) =>
           \E k \in 1..Len(l2) : l2[k] = Call("initEnv.Execute", 0, "ok")

\* C38: with no flag forced, an execution of Run() returns a stage failure
\* with the label of the other family, adds or refuses a workload without its
\* own confirmation answer, or deploys the environment without having
\* initialized it, only when a second execution on the same deployOpts
\* recorded that label, got that answer or ran the init command; the label of
\* a stage failure is the one of the store type the failing execution or the
\* other one fetched last; an execution that is alone on its deployOpts shows
\* none of these effects.
C38_CrossRunEffectsNeedSecondRun ==
    /\ [](/\ C38_Borrowed(log, err, storeType, other.log)
          /\ C38_Borrowed(other.log, other.err, other.storeType, log)
          /\ other.switches = 0 =>
                 /\ ~C38_ForeignLabel(log, err, storeType)
                 /\ ~C38_AddedUnasked(log)
                 /\ ~C38_RefusedUnasked(log, err)
                 /\ ~C38_DeployedUninferred(log))
    /\ [][(/\ pc \in {"Ask", "Validate", "Execute"}
           /\ other' = other
           /\ err' # NoErr) =>
              /\ err'[2] \in {C38_Family(storeType), C38_Family(other.storeType)}
              /\ err'[2] # C38_Family(storeType) => other.storeType # ""]_vars

\* the execution that started first added "fe", a service, after asking, and
\* failed in a stage of its deploy command with the label "job", which the second
\* execution recorded for "mailer"; the second execution deployed the
\* environment the first had initialized and added "mailer" without asking
C38_Witness ==
    /\ Running = 0
    /\ C38_ForeignLabel(log, err, storeType)
    /\ Logged(Call("prompt.Confirm.wkld", 1, "true"))
    /\ err[2] = "job"
    /\ C38_AddedUnasked(other.log)
    /\ C38_DeployedUninferred(other.log)
    /\ other.idx = 2

====
